---------------------------- MODULE Spec2Model ----------------------------
(***************************************************************************)
(* Model of the WebSocket store (STOMP over SockJS) of                     *)
(* src/src/store/useWebSocketStore.ts: connection state, reconnection      *)
(* with exponential backoff, message sending and subscription.             *)
(*                                                                         *)
(* The store is a zustand singleton; every handler runs to completion in   *)
(* one event-loop turn, so each handler and each callback is one action.   *)
(* The STOMP clients created by connect() and the browser's timer table    *)
(* are part of the state: their callbacks are the environment's actions.   *)
(***************************************************************************)
EXTENDS Integers, Sequences, FiniteSets, Bags, TLC

(***************************************************************************)
(* Bounds of the model.                                                    *)
(***************************************************************************)
ClientLimit == 4     \* STOMP clients created in one behaviour
MaxClients == 3      \* the same, in behaviours of every caller and server
SessionClients == 2  \* the same, in behaviours with logins or two urls
MsgClients == 1      \* the same, in behaviours that send and subscribe
MaxUnsubs == 2       \* unsubscribe calls in one behaviour
MaxCalls == 2        \* sendMessage and subscribe calls and messages
TableClients == 3    \* STOMP clients, in behaviours of CrawlingTable
MaxTableSubs == 2    \* subscribe calls of CrawlingTable
MaxPending == 3      \* requests of apiClient awaiting one another
MaxSockets == 4      \* WebSocket instances the useWebSocket hook creates
                     \* delivered in one behaviour, together

Urls == {"wss://host/ws"}
Destinations == {"/topic/progress", "/user/queue/crawling-progress"}
Callbacks == {"onProgress"}
OtherUrls == {"wss://other/ws"}

\* null of the auth store's fields and of localStorage.getItem.
null == "null"
AccessTokens == {"jwtA", "jwtB"}
RefreshTokens == {"refreshA"}

(***************************************************************************)
(* Program constants.                                                      *)
(***************************************************************************)
maxReconnectAttempts == 5
reconnectLimit == 5
BaseDelayMs == 1000
MaxDelayMs == 30000

\* enum ReadyState
CONNECTING == "CONNECTING"
OPEN == "OPEN"
CLOSING == "CLOSING"
CLOSED == "CLOSED"
UNINSTANTIATED == "UNINSTANTIATED"

ReadyState == {CONNECTING, OPEN, CLOSING, CLOSED, UNINSTANTIATED}

\* The status strings of the source are Korean; each is rendered here by
\* its English meaning: '연결 중...', '연결됨', '연결 종료 중...',
\* '연결 끊김', '연결 안 됨'.
getStatusString(rs) ==
    CASE rs = CONNECTING -> "connecting..."
      [] rs = OPEN -> "connected"
      [] rs = CLOSING -> "closing..."
      [] rs = CLOSED -> "disconnected"
      [] rs = UNINSTANTIATED -> "not connected"

Min(a, b) == IF a < b THEN a ELSE b

RECURSIVE Pow2(_)
Pow2(n) == IF n = 0 THEN 1 ELSE 2 * Pow2(n - 1)

Delay_FromOneSecond(nextAttempts) ==
    Min(BaseDelayMs * Pow2(nextAttempts - 1), MaxDelayMs)

\* Math.min(1000 * Math.pow(2, nextAttempts), 30000), line 353
Delay(nextAttempts) == Min(BaseDelayMs * Pow2(nextAttempts), MaxDelayMs)

AlreadyActive_OpenOnly(rs) == rs = OPEN

\* The two early returns of connect(), lines 289-296.
AlreadyActive(rs) == rs = OPEN \/ rs = CONNECTING

MaxAttemptsReached_Strict(attempts) == attempts > maxReconnectAttempts

\* The guard of line 298.
MaxAttemptsReached(attempts) == attempts >= maxReconnectAttempts

\* The guard of line 356.
ShouldReconnect(nextAttempts) == nextAttempts < maxReconnectAttempts

VARIABLES
    stompClient,          \* store: 0 (null) or the index of a client
    readyState,           \* store
    connectionStatus,     \* store
    reconnectAttempts,    \* store
    reconnectTimeoutId,   \* store: 0 (null) or a timer id
    clients,              \* every Stomp client created so far, in order
    timers,               \* the browser's pending setTimeout entries
    transmitted,          \* messages handed to a client's send()
    dropped,              \* ids of messages sendMessage refused
    subs,                 \* subscriptions registered on a client
    msgSeq,               \* number of sendMessage calls so far
    subSeq,               \* number of subscribe calls so far
    invocations,          \* bag of the calls of subscription callbacks
    delivered,            \* number of messages the broker delivered
    unsubSeq,             \* number of unsubscribe calls so far
    unsubRequests,        \* bag of the ids Stomp was asked to unsubscribe
    delayLog,             \* delays computed since reconnectAttempts was 0
    disconnected,         \* disconnect() ran and no caller connect() since
    staleTimers,          \* ids of pending timers older than a disconnect()
    lastOp,               \* the handler or callback that ran last
    accessToken,          \* auth store
    refreshToken,         \* auth store
    isAuthenticated,      \* auth store
    userId,               \* auth store
    localStorage,         \* the accessToken and refreshToken items
    mounted,              \* CrawlingTable is on the page
    effectDeps,           \* the dependencies its effect last ran with
    subscription,         \* the handle its last effect run holds, or 0
    httpStack,            \* the requests of apiClient not settled yet
    httpSent,             \* the requests the interceptor issued so far
    httpOp,               \* the last run of the response interceptor
    hook,                 \* the useWebSocket hook and its sockets
    crawl,                \* the state of the useCrawling hook
    cron                  \* a schedule, its cron expression, its parse

authVars == <<accessToken, refreshToken, isAuthenticated, userId,
              localStorage>>

tableVars == <<mounted, effectDeps, subscription>>

httpVars == <<httpStack, httpSent, httpOp>>

pageVars == <<hook, crawl, cron>>

callerVars == <<tableVars, httpVars, pageVars>>

vars == <<stompClient, readyState, connectionStatus, reconnectAttempts,
          reconnectTimeoutId, clients, timers, transmitted, dropped, subs,
          msgSeq, subSeq, invocations, delivered, unsubSeq, unsubRequests,
          delayLog, disconnected,
          staleTimers, lastOp,
          accessToken, refreshToken, isAuthenticated, userId, localStorage,
          mounted, effectDeps, subscription, httpStack, httpSent, httpOp,
          hook, crawl, cron>>

ClientIds == 1..Len(clients)

\* A client whose socket is open or opening and that has not been told
\* by an ERROR frame that the session is over.
Alive(c) == clients[c].st \in {"handshaking", "connected"} /\ ~clients[c].err

\* Stomp.Client.connected
Connected(c) == clients[c].st = "connected"

AliveClients == {c \in ClientIds : Alive(c)}

TimerIds == {t.id : t \in timers}

\* setTimeout returns a handle that no pending timer has.
FreshTimerId == CHOOSE i \in 1..(Cardinality(timers) + 1) : i \notin TimerIds

ClearTimeout_HandleOnly(ts, id) == ts

\* clearTimeout(id): no effect when the timer already fired.
ClearTimeout(ts, id) == {t \in ts : t.id # id}

\* The store's fields before a handler runs, kept for the record of the
\* last operation.
Snapshot ==
    [rs |-> readyState, att |-> reconnectAttempts, sc |-> stompClient,
     tid |-> reconnectTimeoutId, n |-> Len(clients),
     nt |-> Cardinality(timers), nu |-> BagCardinality(unsubRequests)]

\* The retries are used up: CLOSED at the ceiling, no timer pending.
Exhausted(snap) ==
    /\ snap.rs = CLOSED
    /\ snap.att >= maxReconnectAttempts
    /\ snap.nt = 0

\* Where an operation stands in a run the properties follow: "first" for
\* the connect() made in the initial state and for the success callback
\* right after it, "resume" for the connect() right after a disconnect()
\* that found the retries used up.
Scenario(name) ==
    IF name = "connect" /\ lastOp.op = "init" THEN "first"
    ELSE IF /\ name = "onConnected"
            /\ lastOp.op = "connect"
            /\ lastOp.scen = "first" THEN "first"
    ELSE IF /\ name = "connect"
            /\ lastOp.op = "disconnect"
            /\ Exhausted(lastOp.pre) THEN "resume"
    ELSE "none"

\* arg: the url or the destination the operation was given, the url of
\* the client a callback belongs to.
OpOn(name, ret, stale, arg) ==
    [op |-> name, prev |-> lastOp.op, pre |-> Snapshot, ret |-> ret,
     stale |-> stale, scen |-> Scenario(name), arg |-> arg]

Op(name, ret, stale) == OpOn(name, ret, stale, "")

\* decodeJwt(token).sub, useAuthStore.ts lines 4-16 and 38: the tokens are
\* opaque, each stands for a JWT whose payload names one user.
DecodeSub(token) ==
    CASE token = "jwtA" -> "userA"
      [] token = "jwtB" -> "userB"
      [] OTHER -> null

\* The auth store created over the items ls of localStorage, useAuthStore.ts
\* lines 27-31 and 51-59.
InitAuth(ls) ==
    /\ localStorage = ls
    /\ accessToken = ls.accessToken
    /\ refreshToken = ls.refreshToken
    /\ isAuthenticated = (ls.accessToken # null)
    /\ userId = IF ls.accessToken # null
                THEN DecodeSub(ls.accessToken) ELSE null

InitStore ==
    /\ stompClient = 0
    /\ readyState = UNINSTANTIATED
    /\ connectionStatus = getStatusString(UNINSTANTIATED)
    /\ reconnectAttempts = 0
    /\ reconnectTimeoutId = 0
    /\ clients = <<>>
    /\ timers = {}
    /\ transmitted = {}
    /\ dropped = {}
    /\ subs = {}
    /\ msgSeq = 0
    /\ subSeq = 0
    /\ invocations = EmptyBag
    /\ delivered = 0
    /\ unsubSeq = 0
    /\ unsubRequests = EmptyBag
    /\ delayLog = <<>>
    /\ disconnected = FALSE
    /\ staleTimers = {}
    /\ lastOp = [op |-> "init", prev |-> "init",
                 pre |-> [rs |-> UNINSTANTIATED, att |-> 0, sc |-> 0,
                          tid |-> 0, n |-> 0, nt |-> 0, nu |-> 0],
                 ret |-> 0, stale |-> FALSE, scen |-> "none", arg |-> ""]

\* CrawlingTable before its first effect run (m) or not on the page.
InitTable(m) ==
    /\ mounted = m
    /\ effectDeps = <<>>
    /\ subscription = 0

\* apiClient with no request made.
InitHttp ==
    /\ httpStack = <<>>
    /\ httpSent = [refresh |-> 0, retry |-> 0]
    /\ httpOp = [status |-> 0, kind |-> "none", marked |-> FALSE,
                 stored |-> null, depth |-> 0, posted |-> FALSE,
                 settled |-> "none", before |-> <<>>]

\* useWebSocket before its component mounts, part_019 lines 110-117.
InitHook ==
    hook = [userId |-> null, mounted |-> "no", ws |-> 0, sockets |-> <<>>,
            attempts |-> 0, stableId |-> 0, timers |-> {}, limit |-> 0,
            isConnected |-> FALSE, error |-> "none", scheduled |-> 0,
            atUnmount |-> 0, op |-> "init",
            pre |-> [att |-> 0, n |-> 0, nr |-> 0, open |-> FALSE]]

\* useCrawling as created, useCrawling.ts lines 41-47.
InitCrawl ==
    crawl = [messages |-> <<>>, progress |-> 0, isCrawling |-> FALSE,
             showCompletionMessage |-> FALSE, threw |-> FALSE,
             starting |-> FALSE, op |-> "init",
             pre |-> [messages |-> <<>>, progress |-> 0,
                      isCrawling |-> FALSE,
                      showCompletionMessage |-> FALSE],
             data |-> [text |-> "none"]]

\* No schedule chosen.
InitCron == cron = [stage |-> "none"]

InitPage ==
    /\ InitHook
    /\ InitCrawl
    /\ InitCron

\* A browser with nothing stored.
Init ==
    /\ InitStore
    /\ InitAuth([accessToken |-> null, refreshToken |-> null])
    /\ InitTable(FALSE)
    /\ InitHttp
    /\ InitPage

\* A browser with nothing stored or with the tokens of an earlier login.
InitSession ==
    /\ InitStore
    /\ InitTable(FALSE)
    /\ InitHttp
    /\ InitPage
    /\ \E a \in AccessTokens \cup {null} :
           InitAuth([accessToken |-> a,
                     refreshToken |-> IF a = null THEN null
                                      ELSE CHOOSE r \in RefreshTokens : TRUE])

\* History: a stale id is forgotten once its timer is gone.
Prune(stale, ts) == stale \cap {t.id : t \in ts}

\* Stomp's client.disconnect(cb): sends DISCONNECT, detaches the close
\* handler, closes the socket, clears `connected` and runs cb at once.
StompDisconnect(cs, c) == [cs EXCEPT ![c].st = "closed"]

RefuseConnect_ResetAttempts ==
    /\ readyState' = CLOSED
    /\ connectionStatus' = getStatusString(CLOSED)
    /\ reconnectAttempts' = 0
    /\ UNCHANGED <<stompClient, clients>>

\* What connect() does at the retry ceiling before it returns, lines
\* 299-301.
RefuseConnect ==
    /\ readyState' = CLOSED
    /\ connectionStatus' = getStatusString(CLOSED)
    /\ UNCHANGED <<stompClient, reconnectAttempts, clients>>

SetConnecting_Skipped == UNCHANGED <<readyState, connectionStatus>>

\* set({ readyState: CONNECTING, connectionStatus: ... }), line 317.
SetConnecting ==
    /\ readyState' = CONNECTING
    /\ connectionStatus' = getStatusString(CONNECTING)

\* The headers given to SockJS and to the STOMP CONNECT frame, lines
\* 321-322.
Headers(token) ==
    IF token # null THEN {<<"Authorization", "Bearer " \o token>>} ELSE {}

HandshakeHeaders_Reused ==
    IF clients = <<>> THEN Headers(accessToken)
    ELSE clients[Len(clients)].headers

\* The headers of a handshake started now.
HandshakeHeaders == Headers(accessToken)

(***************************************************************************)
(* connect(url), lines 279-392.  ts is the timer table at the moment of    *)
(* the call, name tells a caller's call from a timer's.                    *)
(***************************************************************************)
ConnectBody(url, ts) ==
    LET ts1 == IF reconnectTimeoutId # 0
               THEN ClearTimeout(ts, reconnectTimeoutId) ELSE ts
        \* lines 305-315: the callback's UNINSTANTIATED is overwritten at
        \* line 317, its stompClient: null at line 390.
        cleaned == IF stompClient # 0
                   THEN StompDisconnect(clients, stompClient)
                   ELSE clients
    IN  /\ timers' = ts1
        /\ reconnectTimeoutId' = 0
        /\ staleTimers' = Prune(staleTimers, ts1)
        /\ IF AlreadyActive(readyState)
           THEN UNCHANGED <<stompClient, readyState, connectionStatus,
                            reconnectAttempts, clients>>
           ELSE IF MaxAttemptsReached(reconnectAttempts)
           THEN RefuseConnect
           ELSE /\ Len(clients) < ClientLimit
                /\ SetConnecting
                /\ clients' = Append(cleaned,
                       [st |-> "handshaking", err |-> FALSE, url |-> url,
                        headers |-> HandshakeHeaders])
                /\ stompClient' = Len(clients) + 1
                /\ UNCHANGED reconnectAttempts

\* connect(url) as one step of a caller or of a timer.
ConnectHandler(url, ts, name, stale) ==
    LET created == /\ ~AlreadyActive(readyState)
                   /\ ~MaxAttemptsReached(reconnectAttempts)
    IN  /\ ConnectBody(url, ts)
        /\ lastOp' = OpOn(name, IF created THEN 1 ELSE 0, stale, url)
        /\ UNCHANGED <<transmitted, dropped, subs, msgSeq, subSeq, delayLog>>
        /\ UNCHANGED <<invocations, delivered, unsubSeq, unsubRequests>>
        /\ UNCHANGED <<authVars, callerVars>>

\* A caller calls connect(url).
Connect(url) ==
    /\ ConnectHandler(url, timers, "connect", FALSE)
    /\ disconnected' = FALSE

TimerFire_DefaultUrl(t) ==
    /\ t \in timers
    /\ ConnectHandler(CHOOSE u \in Urls : TRUE, timers \ {t}, "timer",
                      t.id \in staleTimers)
    /\ UNCHANGED disconnected

\* A reconnect timer fires: () => get().connect(url), line 359.
TimerFire(t) ==
    /\ t \in timers
    /\ ConnectHandler(t.url, timers \ {t}, "timer", t.id \in staleTimers)
    /\ UNCHANGED disconnected

(***************************************************************************)
(* disconnect(), lines 399-430.                                            *)
(***************************************************************************)
SetDisconnected_KeepAttempts ==
    /\ readyState' = CLOSED
    /\ connectionStatus' = getStatusString(CLOSED)
    /\ stompClient' = 0
    /\ UNCHANGED reconnectAttempts

SetDisconnected_Uninstantiated ==
    /\ readyState' = UNINSTANTIATED
    /\ connectionStatus' = getStatusString(UNINSTANTIATED)
    /\ stompClient' = 0
    /\ reconnectAttempts' = 0

\* The state both branches of disconnect() set, lines 412-417 and 422-427.
SetDisconnected ==
    /\ readyState' = CLOSED
    /\ connectionStatus' = getStatusString(CLOSED)
    /\ stompClient' = 0
    /\ reconnectAttempts' = 0

DisconnectBody ==
    LET ts1 == IF reconnectTimeoutId # 0
               THEN ClearTimeout(timers, reconnectTimeoutId) ELSE timers
    IN  /\ timers' = ts1
        /\ reconnectTimeoutId' = 0
        /\ IF stompClient # 0 /\ Connected(stompClient)
           THEN /\ clients' = StompDisconnect(clients, stompClient)
                /\ SetDisconnected
           ELSE /\ SetDisconnected
                /\ UNCHANGED clients
        /\ delayLog' = <<>>
        /\ disconnected' = TRUE
        /\ staleTimers' = {t.id : t \in ts1}

\* A caller calls disconnect().
Disconnect ==
        /\ DisconnectBody
        /\ lastOp' = Op("disconnect", 0, FALSE)
        /\ UNCHANGED <<transmitted, dropped, subs, msgSeq, subSeq>>
        /\ UNCHANGED <<invocations, delivered, unsubSeq, unsubRequests>>
        /\ UNCHANGED <<authVars, callerVars>>

(***************************************************************************)
(* The callbacks handed to newStompClient.connect, lines 335-387.          *)
(***************************************************************************)
SuccessCallback_KeepAttempts(c) ==
    /\ readyState' = OPEN
    /\ connectionStatus' = getStatusString(OPEN)
    /\ stompClient' = c
    /\ UNCHANGED <<reconnectAttempts, delayLog>>
    /\ UNCHANGED <<reconnectTimeoutId, timers, staleTimers>>

SuccessCallback_StaleStatus(c) ==
    /\ readyState' = OPEN
    /\ stompClient' = c
    /\ reconnectAttempts' = 0
    /\ delayLog' = <<>>
    /\ UNCHANGED <<connectionStatus, reconnectTimeoutId, timers, staleTimers>>

\* Success callback of client c, lines 338-346.
SuccessCallback(c) ==
    /\ readyState' = OPEN
    /\ connectionStatus' = getStatusString(OPEN)
    /\ stompClient' = c
    /\ reconnectAttempts' = 0
    /\ delayLog' = <<>>
    /\ UNCHANGED <<reconnectTimeoutId, timers, staleTimers>>

\* Error callback of a client created by connect(url), lines 348-386.
ErrorCallback(url) ==
    LET nextAttempts == reconnectAttempts + 1
        delay == Delay(nextAttempts)
        timeoutId == FreshTimerId
    IN  /\ IF ShouldReconnect(nextAttempts)
           THEN /\ timers' = timers \cup {[id |-> timeoutId, url |-> url]}
                /\ readyState' = CLOSED
                /\ connectionStatus' = getStatusString(CLOSED)
                /\ stompClient' = 0
                /\ reconnectAttempts' = nextAttempts
                /\ reconnectTimeoutId' = timeoutId
           ELSE /\ readyState' = CLOSED
                /\ connectionStatus' = getStatusString(CLOSED)
                /\ stompClient' = 0
                /\ reconnectAttempts' = nextAttempts
                /\ reconnectTimeoutId' = 0
                /\ UNCHANGED timers
        /\ delayLog' = Append(delayLog, delay)
        /\ UNCHANGED staleTimers

\* The server answers CONNECTED: the client becomes connected and runs
\* the success callback.
OnConnected(c) ==
    /\ c \in ClientIds
    /\ clients[c].st = "handshaking"
    /\ ~clients[c].err
    /\ clients' = [clients EXCEPT ![c].st = "connected"]
    /\ SuccessCallback(c)
    /\ lastOp' = OpOn("onConnected", c, FALSE, clients[c].url)
    /\ UNCHANGED <<transmitted, dropped, subs, msgSeq, subSeq, disconnected>>
    /\ UNCHANGED <<invocations, delivered, unsubSeq, unsubRequests>>
    /\ UNCHANGED <<authVars, callerVars>>

\* The server sends a STOMP ERROR frame (error instanceof Stomp.Frame,
\* line 383): the error callback runs, the socket is still open.
OnErrorFrame(c) ==
    /\ c \in ClientIds
    /\ clients[c].st \in {"handshaking", "connected"}
    /\ ~clients[c].err
    /\ clients' = [clients EXCEPT ![c].err = TRUE]
    /\ ErrorCallback(clients[c].url)
    /\ lastOp' = OpOn("onErrorFrame", 1, FALSE, clients[c].url)
    /\ UNCHANGED <<transmitted, dropped, subs, msgSeq, subSeq, disconnected>>
    /\ UNCHANGED <<invocations, delivered, unsubSeq, unsubRequests>>
    /\ UNCHANGED <<authVars, callerVars>>

\* The socket of client c closes (error instanceof CloseEvent, line 381):
\* the client is no longer connected and the error callback runs.  The
\* record of the operation counts the error callbacks c has run so far.
OnClose(c) ==
    /\ c \in ClientIds
    /\ clients[c].st \in {"handshaking", "connected"}
    /\ clients' = [clients EXCEPT ![c].st = "closed"]
    /\ ErrorCallback(clients[c].url)
    /\ lastOp' = OpOn("onClose", IF clients[c].err THEN 2 ELSE 1, FALSE,
                      clients[c].url)
    /\ UNCHANGED <<transmitted, dropped, subs, msgSeq, subSeq, disconnected>>
    /\ UNCHANGED <<invocations, delivered, unsubSeq, unsubRequests>>
    /\ UNCHANGED <<authVars, callerVars>>

(***************************************************************************)
(* sendMessage, subscribe, resetReconnectAttempts.                         *)
(***************************************************************************)
CanUse_AnyClient(sc, rs) == sc # 0

\* The messaging steps taken so far.
Calls == msgSeq + subSeq + delivered

\* The guard of sendMessage and of subscribe, lines 442 and 462.
CanUse(sc, rs) == sc # 0 /\ Connected(sc) /\ rs = OPEN

\* sendMessage(destination, body), lines 439-448.  The body is opaque:
\* the number of the call stands for it.
SendMessage(dest) ==
    /\ Calls < MaxCalls
    /\ msgSeq' = msgSeq + 1
    /\ IF CanUse(stompClient, readyState)
       THEN /\ transmitted' = transmitted \cup
                  {[id |-> msgSeq + 1, client |-> stompClient, dest |-> dest]}
            /\ UNCHANGED dropped
       ELSE /\ dropped' = dropped \cup {msgSeq + 1}
            /\ UNCHANGED transmitted
    /\ lastOp' = OpOn("sendMessage", msgSeq + 1, FALSE, dest)
    /\ UNCHANGED <<authVars, callerVars>>
    /\ UNCHANGED <<stompClient, readyState, connectionStatus,
                   reconnectAttempts, reconnectTimeoutId, clients, timers,
                   subs, subSeq, delayLog, disconnected, staleTimers,
                   invocations, delivered, unsubSeq, unsubRequests>>

Subscribe_NoReturn(dest, cb) ==
    /\ Calls < MaxCalls
    /\ subSeq' = subSeq + 1
    /\ IF CanUse(stompClient, readyState)
       THEN subs' = subs \cup {[id |-> subSeq + 1, client |-> stompClient,
                                dest |-> dest, callback |-> cb]}
       ELSE UNCHANGED subs
    /\ lastOp' = OpOn("subscribe", 0, FALSE, <<dest, cb>>)
    /\ UNCHANGED <<authVars, callerVars>>
    /\ UNCHANGED <<stompClient, readyState, connectionStatus,
                   reconnectAttempts, reconnectTimeoutId, clients, timers,
                   transmitted, dropped, msgSeq, delayLog, disconnected,
                   staleTimers, invocations, delivered, unsubSeq,
                   unsubRequests>>

\* subscribe(destination, callback), lines 459-468.  The value returned is
\* kept in lastOp.ret: the id of the handle stompClient.subscribe gives, or
\* 0 for undefined.
Subscribe(dest, cb) ==
    /\ Calls < MaxCalls
    /\ subSeq' = subSeq + 1
    /\ IF CanUse(stompClient, readyState)
       THEN /\ subs' = subs \cup
                  {[id |-> subSeq + 1, client |-> stompClient,
                    dest |-> dest, callback |-> cb]}
            /\ lastOp' = OpOn("subscribe", subSeq + 1, FALSE, <<dest, cb>>)
       ELSE /\ UNCHANGED subs
            /\ lastOp' = OpOn("subscribe", 0, FALSE, <<dest, cb>>)
    /\ UNCHANGED <<authVars, callerVars>>
    /\ UNCHANGED <<stompClient, readyState, connectionStatus,
                   reconnectAttempts, reconnectTimeoutId, clients, timers,
                   transmitted, dropped, msgSeq, delayLog, disconnected,
                   staleTimers, invocations, delivered, unsubSeq,
                   unsubRequests>>

\* The broker delivers a message for subscription sub of a connected
\* client: Stomp looks the subscription up by its id and calls its
\* callback with the message.  The number of the message stands for it.
Deliver(sub) ==
    /\ sub \in subs
    /\ Connected(sub.client)
    /\ Calls < MaxCalls
    /\ delivered' = delivered + 1
    /\ invocations' = invocations (+)
           SetToBag({[msg |-> delivered + 1, callback |-> sub.callback]})
    /\ lastOp' = OpOn("deliver", delivered + 1, FALSE, sub.dest)
    /\ UNCHANGED <<authVars, callerVars>>
    /\ UNCHANGED <<stompClient, readyState, connectionStatus,
                   reconnectAttempts, reconnectTimeoutId, clients, timers,
                   transmitted, dropped, subs, msgSeq, subSeq, delayLog,
                   disconnected, staleTimers, unsubSeq, unsubRequests>>

\* The handles subscribe() has returned so far.
Handles == {sub.id : sub \in subs} \cup BagToSet(unsubRequests)

\* subscription.unsubscribe() of Stomp: forgets the callback of the id and
\* sends an UNSUBSCRIBE frame for it, whether or not the id is still
\* subscribed.
StompUnsubscribe(h) ==
    /\ subs' = {sub \in subs : sub.id # h}
    /\ unsubRequests' = unsubRequests (+) SetToBag({h})

\* unsubscribe(subscription), lines 475-480.  h is the id of a handle, or 0
\* for undefined or null.
Unsubscribe(h) ==
    /\ unsubSeq < MaxUnsubs
    /\ unsubSeq' = unsubSeq + 1
    /\ IF h # 0
       THEN StompUnsubscribe(h)
       ELSE UNCHANGED <<subs, unsubRequests>>
    /\ lastOp' = Op("unsubscribe", h, FALSE)
    /\ UNCHANGED <<authVars, callerVars>>
    /\ UNCHANGED <<stompClient, readyState, connectionStatus,
                   reconnectAttempts, reconnectTimeoutId, clients, timers,
                   transmitted, dropped, msgSeq, subSeq, delayLog,
                   disconnected, staleTimers, invocations, delivered>>

\* resetReconnectAttempts(), lines 486-488.
ResetReconnectAttempts ==
    /\ reconnectAttempts' = 0
    /\ delayLog' = <<>>
    /\ lastOp' = Op("resetReconnectAttempts", 0, FALSE)
    /\ UNCHANGED <<authVars, callerVars>>
    /\ UNCHANGED <<stompClient, readyState, connectionStatus,
                   reconnectTimeoutId, clients, timers, transmitted, dropped,
                   subs, msgSeq, subSeq, disconnected, staleTimers,
                   invocations, delivered, unsubSeq, unsubRequests>>

(***************************************************************************)
(* The auth store, useAuthStore.ts lines 27-48.                            *)
(***************************************************************************)
storeVars == <<stompClient, readyState, connectionStatus, reconnectAttempts,
               reconnectTimeoutId, clients, timers, transmitted, dropped,
               subs, msgSeq, subSeq, delayLog, disconnected, staleTimers,
               invocations, delivered, unsubSeq, unsubRequests>>

\* login(accessToken, refreshToken), lines 33-41.
SetLogin(a, r) ==
    /\ localStorage' = [accessToken |-> a, refreshToken |-> r]
    /\ accessToken' = a
    /\ refreshToken' = r
    /\ isAuthenticated' = TRUE
    /\ userId' = DecodeSub(a)

\* A caller logs in.
Login(a, r) ==
    /\ SetLogin(a, r)
    /\ lastOp' = OpOn("login", 0, FALSE, a)
    /\ UNCHANGED <<storeVars, callerVars>>

SetLogout_KeepRefreshItem ==
    /\ localStorage' = [localStorage EXCEPT !.accessToken = null]
    /\ accessToken' = null
    /\ refreshToken' = null
    /\ isAuthenticated' = FALSE
    /\ userId' = null

\* logout(), lines 43-47.
SetLogout ==
    /\ localStorage' = [accessToken |-> null, refreshToken |-> null]
    /\ accessToken' = null
    /\ refreshToken' = null
    /\ isAuthenticated' = FALSE
    /\ userId' = null

\* A caller logs out.
Logout ==
    /\ SetLogout
    /\ lastOp' = Op("logout", 0, FALSE)
    /\ UNCHANGED <<storeVars, callerVars>>

(***************************************************************************)
(* CrawlingTable, part_007 lines 20-88.  React renders the component      *)
(* again and flushes its effect in the same task as the store update that *)
(* changed a dependency, before any other timer or socket event is served. *)
(***************************************************************************)
\* wsUrl, lines 49-52.
TableUrl == "wss://host/ws"

\* destination, line 74.
TableDestination == "/user/queue/crawling-progress"

\* The callback handed to subscribe, lines 75-79.
TableCallback == "onProgress"

\* The dependencies of the effect that change between renders, line 88:
\* the store's functions and handleWebSocketMessage keep their identity.
CurrentDeps == <<userId, readyState, reconnectAttempts>>

\* A render found a dependency changed, or the component just mounted.
EffectPending == mounted /\ effectDeps # CurrentDeps

ShouldConnect_IgnoreAttempts(uid, rs, att) ==
    /\ uid # null
    /\ rs = UNINSTANTIATED \/ rs = CLOSED

\* The condition of line 48.
ShouldConnect(uid, rs, att) ==
    /\ uid # null
    /\ rs = UNINSTANTIATED \/ rs = CLOSED
    /\ att = 0

\* The condition of line 71.
ShouldSubscribe(uid, rs) == rs = OPEN /\ uid # null

\* What setupWebSocketConnection calls, lines 46-58: 1 for connect(wsUrl),
\* 2 for disconnect(), 0 for neither.
SetupCall(uid, rs, att) ==
    IF ShouldConnect(uid, rs, att) THEN 1
    ELSE IF uid = null THEN 2
    ELSE 0

\* The cleanup of the last effect run, lines 83-87: unsubscribe(h) when the
\* run holds a handle.  kept is the value of subs it leaves.
TableCleanup(kept) ==
    IF subscription # 0
    THEN /\ kept = {sub \in subs : sub.id # subscription}
         /\ unsubRequests' = unsubRequests (+) SetToBag({subscription})
         /\ unsubSeq' = unsubSeq + 1
    ELSE /\ kept = subs
         /\ UNCHANGED <<unsubRequests, unsubSeq>>

\* subscribe(destination, callback) called by the effect, lines 74-79,
\* over the subscriptions kept by the cleanup.
TableSubscribe(kept) ==
    IF CanUse(stompClient, readyState)
    THEN /\ subs' = kept \cup
               {[id |-> subSeq + 1, client |-> stompClient,
                 dest |-> TableDestination, callback |-> TableCallback]}
         /\ subscription' = subSeq + 1
    ELSE /\ subs' = kept
         /\ subscription' = 0

\* The cleanup of the previous run, then the effect, lines 65-88.
TableEffect ==
    /\ EffectPending
    /\ LET uid == userId
           rs == readyState
           att == reconnectAttempts
           call == SetupCall(uid, rs, att)
       IN  /\ CASE call = 1 ->
                     /\ ConnectBody(TableUrl, timers)
                     /\ disconnected' = FALSE
                     /\ UNCHANGED delayLog
                [] call = 2 -> DisconnectBody
                [] OTHER ->
                     UNCHANGED <<stompClient, readyState, connectionStatus,
                                 reconnectAttempts, reconnectTimeoutId,
                                 clients, timers, delayLog, disconnected,
                                 staleTimers>>
           /\ \E kept \in SUBSET subs :
                  /\ TableCleanup(kept)
                  /\ IF ShouldSubscribe(uid, rs)
                     THEN /\ subSeq < MaxTableSubs
                          /\ subSeq' = subSeq + 1
                          /\ TableSubscribe(kept)
                     ELSE /\ subs' = kept
                          /\ subscription' = 0
                          /\ UNCHANGED subSeq
           /\ effectDeps' = <<uid, rs, att>>
           /\ lastOp' = OpOn("effect", call, FALSE, uid)
    /\ mounted' = mounted
    /\ UNCHANGED <<transmitted, dropped, msgSeq, invocations, delivered>>
    /\ UNCHANGED <<authVars, httpVars, pageVars>>

\* The component leaves the page: the cleanup of its last effect run.
TableUnmount ==
    /\ mounted
    /\ ~EffectPending
    /\ mounted' = FALSE
    /\ \E kept \in SUBSET subs :
           /\ TableCleanup(kept)
           /\ subs' = kept
    /\ subscription' = 0
    /\ lastOp' = OpOn("unmount", 0, FALSE, userId)
    /\ UNCHANGED effectDeps
    /\ UNCHANGED <<stompClient, readyState, connectionStatus,
                   reconnectAttempts, reconnectTimeoutId, clients, timers,
                   delayLog, disconnected, staleTimers, subSeq>>
    /\ UNCHANGED <<transmitted, dropped, msgSeq, invocations, delivered>>
    /\ UNCHANGED <<authVars, httpVars, pageVars>>

(***************************************************************************)
(* The response interceptor of apiClient, axiosConfig.ts lines 31-67.      *)
(* httpStack holds the requests that are not settled: the last one is in   *)
(* flight, each one before it is inside the interceptor, awaiting the      *)
(* apiClient.post('/auth/refresh') of line 51, which is the request after  *)
(* it.  That post goes through the same apiClient, hence through the same  *)
(* interceptor, with a config of its own.                                  *)
(***************************************************************************)
\* The statuses the backend answers with: success, 401, another error.
HttpStatuses == {200, 401, 500}

\* The values of the auth store.
AuthValues ==
    <<accessToken, refreshToken, isAuthenticated, userId, localStorage>>

\* A request as axios sends it first: config._retry is not set.
NewRequest(kind) == [kind |-> kind, marked |-> FALSE, stage |-> "sent"]

\* The request in flight.
InFlight == httpStack[Len(httpStack)]

\* The requests awaiting the one in flight.
Awaiting == SubSeq(httpStack, 1, Len(httpStack) - 1)

\* One more request to /auth/refresh, or one more retry of the original
\* request, issued.
Sent(kind) ==
    IF kind = "refresh"
    THEN [httpSent EXCEPT !.refresh = @ + 1]
    ELSE [httpSent EXCEPT !.retry = @ + 1]

\* The condition of line 37.
ShouldRefresh(status, marked) == status = 401 /\ ~marked

\* A caller makes a request with apiClient.
HttpRequest ==
    /\ httpStack = <<>>
    /\ httpStack' = <<NewRequest("original")>>
    /\ httpSent' = [refresh |-> 0, retry |-> 0]
    /\ httpOp' = [httpOp EXCEPT !.status = 0, !.kind = "none",
                                !.settled = "none", !.posted = FALSE,
                                !.depth = 0]
    /\ lastOp' = Op("request", 0, FALSE)
    /\ UNCHANGED <<storeVars, authVars, tableVars, pageVars>>

\* The promise of the request in flight is rejected.  Every request
\* awaiting it is in the try block of lines 39-56: each catch of lines
\* 57-63 logs out and rejects in turn.  loggedOut: line 43 ran already.
HttpReject(loggedOut) ==
    /\ httpStack' = <<>>
    /\ IF loggedOut \/ Len(httpStack) > 1
       THEN SetLogout
       ELSE UNCHANGED authVars
    /\ UNCHANGED httpSent

\* The promise of the request in flight is fulfilled: the caller has its
\* response, or the request awaiting it continues at line 52 with the
\* tokens of the response, logs in and retries its own request.
HttpFulfil ==
    IF Len(httpStack) = 1
    THEN /\ httpStack' = <<>>
         /\ UNCHANGED <<authVars, httpSent>>
    ELSE LET parent == Awaiting[Len(Awaiting)]
         IN  /\ \E a \in AccessTokens, r \in RefreshTokens : SetLogin(a, r)
             /\ httpStack' = [Awaiting EXCEPT
                                  ![Len(Awaiting)].stage = "retrying"]
             /\ httpSent' = Sent(parent.kind)

\* The backend answers the request in flight: lines 32-66.
HttpRespond(status) ==
    /\ httpStack # <<>>
    /\ LET req == InFlight
           settles == ~(ShouldRefresh(status, req.marked)
                        /\ refreshToken # null)
       IN  /\ IF status = 200
              THEN HttpFulfil
              ELSE IF ShouldRefresh(status, req.marked)
              THEN IF refreshToken = null
                   THEN HttpReject(TRUE)
                   ELSE /\ Len(httpStack) < MaxPending
                        /\ httpStack' =
                               Append([httpStack EXCEPT
                                          ![Len(httpStack)].marked = TRUE,
                                          ![Len(httpStack)].stage =
                                              "refreshing"],
                                      NewRequest("refresh"))
                        /\ httpSent' = Sent("refresh")
                        /\ UNCHANGED authVars
              ELSE HttpReject(FALSE)
           /\ httpOp' = [status |-> status, kind |-> req.kind,
                         marked |-> req.marked, stored |-> refreshToken,
                         depth |-> Len(httpStack),
                         posted |-> httpSent'.refresh > httpSent.refresh,
                         settled |-> IF ~settles THEN "none"
                                     ELSE IF status = 200 THEN "fulfilled"
                                     ELSE "rejected",
                         before |-> AuthValues]
           /\ lastOp' = OpOn("interceptor", status, FALSE, req.kind)
    /\ UNCHANGED <<storeVars, tableVars, pageVars>>

\* The requests of one browser session: a user who logs in and out, any
\* backend.
NextHttp ==
    \/ HttpRequest
    \/ \E status \in HttpStatuses : HttpRespond(status)
    \/ \E a \in AccessTokens, r \in RefreshTokens : Login(a, r)
    \/ Logout

SpecHttp == InitSession /\ [][NextHttp]_vars

\* The strings login() is called with: JWTs, an empty string, a string
\* that is no JWT.
LoginTokens == AccessTokens \cup {"", "opaque"}

LoginRefreshTokens == RefreshTokens \cup {"", "refreshB"}

\* The auth store under any sequence of login() and logout() calls, those
\* of the response interceptor included.
NextAuth ==
    \/ \E a \in LoginTokens, r \in LoginRefreshTokens : Login(a, r)
    \/ Logout
    \/ HttpRequest
    \/ \E status \in HttpStatuses : HttpRespond(status)

SpecAuth == InitSession /\ [][NextAuth]_vars

(***************************************************************************)
(* The useWebSocket hook, reconnecting version, part_019 lines 110-202.    *)
(* hook.sockets holds every WebSocket created, with the userId of the      *)
(* connect closure that created it; hook.timers the pending setTimeout     *)
(* entries: the stable-connection timers of onopen and the reconnect       *)
(* timers of onclose.  The functions below take the hook's fields h and    *)
(* give the fields after the call.                                         *)
(***************************************************************************)
\* The users of useUserStore: nobody, or one user.
HookUsers == {null, "userA"}

\* options.reconnectLimit as given to the hook: 0 for none given.
HookLimits == {0, 2}

\* optionsRef.current?.reconnectLimit ?? 5, lines 173 and 199.
ReconnectLimit(h) == IF h.limit = 0 THEN reconnectLimit ELSE h.limit

\* if (ref.current) clearTimeout(ref.current): the id stays in the ref.
\* A socket opens once, so the number of the socket names its timer.
WsClearStable(h) ==
    [h EXCEPT !.timers = {t \in @ : ~(t.kind = "stable"
                                      /\ t.sock = h.stableId)}]

\* ws.current is a socket that is OPEN or CONNECTING, line 137.
WsActive(h) ==
    h.ws # 0 /\ h.sockets[h.ws].st \in {"open", "connecting"}

\* ws.current?.close(): an OPEN or CONNECTING socket starts closing.
WsClose(h) ==
    IF WsActive(h)
    THEN [h EXCEPT !.sockets[h.ws].st = "closing"]
    ELSE h

\* connect() of the render with userId u, lines 125-148.
WsConnect(h, u) ==
    IF u = null THEN h
    ELSE IF WsActive(h) THEN h
    ELSE [WsClearStable(h) EXCEPT
             !.sockets = Append(@, [st |-> "connecting", user |-> u]),
             !.ws = Len(h.sockets) + 1,
             !.error = "none"]

\* onopen of socket s, lines 150-159.
WsOnOpen(h, s) ==
    [h EXCEPT !.isConnected = TRUE,
              !.stableId = s,
              !.timers = @ \cup {[kind |-> "stable", sock |-> s,
                                  user |-> h.sockets[s].user]}]

WsOnClose_Unlimited(h, s) ==
    LET c == WsClearStable(h)
    IN  [c EXCEPT !.isConnected = FALSE,
                  !.attempts = @ + 1,
                  !.scheduled = @ + 1,
                  !.timers = @ \cup {[kind |-> "reconnect", sock |-> s,
                                      user |-> h.sockets[s].user]}]

\* onclose of socket s, lines 166-183.  The timer runs the connect of the
\* closure that created s.
WsOnClose(h, s) ==
    LET c == WsClearStable(h)
    IN  IF h.attempts < ReconnectLimit(h)
        THEN [c EXCEPT !.isConnected = FALSE,
                       !.attempts = @ + 1,
                       !.scheduled = @ + 1,
                       !.timers = @ \cup {[kind |-> "reconnect", sock |-> s,
                                           user |-> h.sockets[s].user]}]
        ELSE [c EXCEPT !.isConnected = FALSE, !.error = "permanent"]

\* onerror of a socket, lines 185-189: closes ws.current, whichever socket
\* the event belongs to.
WsOnError(h) == [WsClose(h) EXCEPT !.error = "event"]

\* The cleanup of the effect, lines 194-201.
WsCleanup(h) ==
    [WsClose(WsClearStable(h)) EXCEPT !.attempts = ReconnectLimit(h)]

\* The pending reconnect timers.
Reconnects(h) == {t \in h.timers : t.kind = "reconnect"}

\* The record of the handler that ran, and of the fields it found.
WsRan(h, name, open) ==
    [h EXCEPT !.op = name,
              !.pre = [att |-> hook.attempts, n |-> Len(hook.sockets),
                       nr |-> Cardinality(Reconnects(hook)),
                       open |-> open]]

\* What the hook's steps leave alone.
HookFrame ==
    /\ UNCHANGED <<storeVars, authVars, tableVars, httpVars, lastOp>>
    /\ UNCHANGED <<crawl, cron>>

\* The component mounts with its options: the effect of lines 192-193
\* calls connect().
HookMount(limit) ==
    /\ hook.mounted = "no"
    /\ hook' = WsRan(WsConnect([hook EXCEPT !.mounted = "yes",
                                            !.limit = limit],
                               hook.userId), "mount", FALSE)
    /\ HookFrame

\* useUserStore gives another userId: connect changes (line 190), the
\* effect runs its cleanup and calls the new connect (lines 192-202).
HookSetUser(u) ==
    /\ u # hook.userId
    /\ LET h == [hook EXCEPT !.userId = u]
       IN  hook' = IF hook.mounted = "yes"
                   THEN WsRan(WsConnect(WsCleanup(h), u), "setUser", FALSE)
                   ELSE WsRan(h, "setUser", FALSE)
    /\ HookFrame

\* The component unmounts: the cleanup of lines 194-201.
HookUnmount ==
    /\ hook.mounted = "yes"
    /\ hook' = WsRan([WsCleanup(hook) EXCEPT
                         !.mounted = "gone",
                         !.atUnmount = Len(hook.sockets)],
                     "unmount", FALSE)
    /\ HookFrame

\* The server accepts the handshake of socket s.
WsOpens(s) ==
    /\ s \in 1..Len(hook.sockets)
    /\ hook.sockets[s].st = "connecting"
    /\ hook' = WsRan(WsOnOpen([hook EXCEPT !.sockets[s].st = "open"], s),
                     "onopen", FALSE)
    /\ HookFrame

\* Socket s closes cleanly: the server closed it, or close() completed.
WsCloses(s) ==
    /\ s \in 1..Len(hook.sockets)
    /\ hook.sockets[s].st \in {"open", "closing"}
    /\ hook' = WsRan(WsOnClose([hook EXCEPT !.sockets[s].st = "closed"], s),
                     "onclose", FALSE)
    /\ HookFrame

\* Socket s fails (refused handshake, lost connection, close() during the
\* handshake): the browser fires error, then close, on the closed socket.
WsFails(s) ==
    /\ s \in 1..Len(hook.sockets)
    /\ hook.sockets[s].st \in {"connecting", "open", "closing"}
    /\ hook' = WsRan(WsOnClose(WsOnError(
                         [hook EXCEPT !.sockets[s].st = "closed"]), s),
                     "onclose", FALSE)
    /\ HookFrame

\* A timer of the hook fires: the reset of lines 153-156, or connect of
\* line 178.
HookTimerFire(t) ==
    /\ t \in hook.timers
    /\ LET h == [hook EXCEPT !.timers = @ \ {t}]
       IN  hook' =
             IF t.kind = "stable"
             THEN WsRan([h EXCEPT !.attempts = 0, !.scheduled = 0],
                        "stable", hook.sockets[t.sock].st = "open")
             ELSE WsRan(WsConnect(h, t.user), "reconnect", FALSE)
    /\ HookFrame

\* The hook in a component that mounts and unmounts, a user who logs in
\* and out, any server.
NextHook ==
    \/ \E limit \in HookLimits :
           HookMount(limit) /\ Len(hook'.sockets) <= MaxSockets
    \/ \E u \in HookUsers :
           HookSetUser(u) /\ Len(hook'.sockets) <= MaxSockets
    \/ HookUnmount
    \/ \E s \in 1..Len(hook.sockets) : WsOpens(s)
    \/ \E s \in 1..Len(hook.sockets) : WsCloses(s)
    \/ \E s \in 1..Len(hook.sockets) : WsFails(s)
    \/ \E t \in hook.timers :
           HookTimerFire(t) /\ Len(hook'.sockets) <= MaxSockets

SpecHook == Init /\ [][NextHook]_vars

(***************************************************************************)
(* generateCronExpression and parseCronExpression, cronUtils.ts lines      *)
(* 133-197.  A string is the sequence of its characters.                   *)
(***************************************************************************)
Frequencies == {"minute", "hourly", "daily", "weekly", "monthly"}

\* The schedules tried: every frequency, minute, hour and day of the
\* week, days of the month of one and of two digits.
CronMinutes == 0..59

CronHours == 0..23

CronDaysOfWeek == 0..6

CronDaysOfMonth == {1, 9, 10, 31}

DigitChars == <<"0", "1", "2", "3", "4", "5", "6", "7", "8", "9">>

\* parseInt of a string with no leading digit.
NaN == -1000

\* `${n}` of a number n >= 0: its decimal digits.
RECURSIVE NumberToString(_)
NumberToString(n) ==
    IF n < 10 THEN <<DigitChars[n + 1]>>
    ELSE NumberToString(n \div 10) \o <<DigitChars[(n % 10) + 1]>>

IsDigit(ch) == \E d \in 1..10 : DigitChars[d] = ch

DigitValue(ch) == (CHOOSE d \in 1..10 : DigitChars[d] = ch) - 1

\* The value of the longest prefix of digits of str, acc so far.
RECURSIVE ParseDigits(_, _)
ParseDigits(str, acc) ==
    IF str = <<>> \/ ~IsDigit(Head(str)) THEN acc
    ELSE ParseDigits(Tail(str), 10 * acc + DigitValue(Head(str)))

\* parseInt(str, 10) of a string without sign or leading blank.
ParseInt(str) ==
    IF str = <<>> \/ ~IsDigit(Head(str)) THEN NaN
    ELSE ParseDigits(str, 0)

\* The fields joined by single blanks, as the template strings of lines
\* 137-147 do.
RECURSIVE JoinFields(_)
JoinFields(fields) ==
    IF Len(fields) = 1 THEN fields[1]
    ELSE fields[1] \o <<" ">> \o JoinFields(Tail(fields))

\* str.split(' '): cur is the field being read.
RECURSIVE SplitBlank(_, _)
SplitBlank(str, cur) ==
    IF str = <<>> THEN <<cur>>
    ELSE IF Head(str) = " " THEN <<cur>> \o SplitBlank(Tail(str), <<>>)
    ELSE SplitBlank(Tail(str), Append(cur, Head(str)))

Star == <<"*">>

QuestionMark == <<"?">>

generateCronExpression_FiveFields(freq, min, hr, dow, dom) ==
    LET m == NumberToString(min)
        h == NumberToString(hr)
    IN  CASE freq = "minute" -> JoinFields(<<Star, Star, Star, Star, Star>>)
          [] freq = "hourly" -> JoinFields(<<m, Star, Star, Star, Star>>)
          [] freq = "daily" -> JoinFields(<<m, h, Star, Star, Star>>)
          [] freq = "weekly" ->
                 JoinFields(<<m, h, QuestionMark, Star, NumberToString(dow)>>)
          [] freq = "monthly" ->
                 JoinFields(<<m, h, NumberToString(dom), Star, QuestionMark>>)
          [] OTHER -> JoinFields(<<<<"0">>, Star, Star, Star, Star>>)

\* generateCronExpression, lines 133-149.
generateCronExpression(freq, min, hr, dow, dom) ==
    LET second == NumberToString(0)
        m == NumberToString(min)
        h == NumberToString(hr)
    IN  CASE freq = "minute" ->
                 JoinFields(<<second, Star, Star, Star, Star, Star>>)
          [] freq = "hourly" ->
                 JoinFields(<<second, m, Star, Star, Star, Star>>)
          [] freq = "daily" ->
                 JoinFields(<<second, m, h, Star, Star, Star>>)
          [] freq = "weekly" ->
                 JoinFields(<<second, m, h, QuestionMark, Star,
                              NumberToString(dow)>>)
          [] freq = "monthly" ->
                 JoinFields(<<second, m, h, NumberToString(dom), Star,
                              QuestionMark>>)
          [] OTHER ->
                 JoinFields(<<second, <<"0">>, Star, Star, Star, Star>>)

Schedule(freq, min, hr, dow, dom) ==
    [freq |-> freq, min |-> min, hr |-> hr, dow |-> dow, dom |-> dom]

\* parseCronExpression, lines 159-197.
parseCronExpression(str) ==
    LET parts == SplitBlank(str, <<>>)
    IN  IF Len(parts) # 6 THEN Schedule("hourly", 0, 0, 0, 1)
        ELSE
        LET minStr == parts[2]
            hrStr == parts[3]
            domStr == parts[4]
            monthStr == parts[5]
            dowStr == parts[6]
            min == IF minStr = Star THEN 0 ELSE ParseInt(minStr)
            hr == IF hrStr = Star THEN 0 ELSE ParseInt(hrStr)
            dom == IF domStr = Star \/ domStr = QuestionMark
                   THEN -1 ELSE ParseInt(domStr)
            dow == IF dowStr = Star \/ dowStr = QuestionMark
                   THEN -1 ELSE ParseInt(dowStr)
        IN  IF /\ minStr = Star
               /\ hrStr = Star
               /\ domStr = Star
               /\ monthStr = Star
               /\ dowStr = Star
            THEN Schedule("minute", 0, 0, 0, 1)
            ELSE IF /\ hrStr = Star
                    /\ domStr = Star
                    /\ monthStr = Star
                    /\ dowStr = Star
            THEN Schedule("hourly", min, 0, 0, 1)
            ELSE IF domStr = QuestionMark /\ dow # -1
            THEN Schedule("weekly", min, hr, dow, 1)
            ELSE IF dom # -1 /\ dowStr = QuestionMark
            THEN Schedule("monthly", min, hr, 0, dom)
            ELSE Schedule("daily", min, hr, 0, 1)

\* What the cron steps leave alone.
CronFrame ==
    /\ UNCHANGED <<storeVars, authVars, tableVars, httpVars, lastOp>>
    /\ UNCHANGED <<hook, crawl>>

\* A schedule chosen in the form.
InitSchedule ==
    /\ InitStore
    /\ InitAuth([accessToken |-> null, refreshToken |-> null])
    /\ InitTable(FALSE)
    /\ InitHttp
    /\ InitHook
    /\ InitCrawl
    /\ \E freq \in Frequencies, min \in CronMinutes, hr \in CronHours,
          dow \in CronDaysOfWeek, dom \in CronDaysOfMonth :
           cron = [stage |-> "chosen",
                   input |-> Schedule(freq, min, hr, dow, dom)]

\* The expression of the schedule is generated.
CronGenerate ==
    /\ cron.stage = "chosen"
    /\ LET i == cron.input
       IN  cron' = [stage |-> "generated", input |-> i,
                    expr |-> generateCronExpression(i.freq, i.min, i.hr,
                                                    i.dow, i.dom)]
    /\ CronFrame

\* The expression is parsed.
CronParse ==
    /\ cron.stage = "generated"
    /\ cron' = [stage |-> "parsed", input |-> cron.input,
                expr |-> cron.expr,
                parsed |-> parseCronExpression(cron.expr)]
    /\ CronFrame

\* An expression is generated from the parsed schedule.
CronGenerateAgain ==
    /\ cron.stage = "parsed"
    /\ LET p == cron.parsed
       IN  cron' = [stage |-> "again", input |-> cron.input,
                    expr |-> cron.expr, parsed |-> p,
                    again |-> generateCronExpression(p.freq, p.min, p.hr,
                                                     p.dow, p.dom)]
    /\ CronFrame

NextCron ==
    \/ CronGenerate
    \/ CronParse
    \/ CronGenerateAgain

SpecCron == InitSchedule /\ [][NextCron]_vars

(***************************************************************************)
(* useCrawling: the progress of a crawling job, src/hooks/useCrawling.ts.  *)
(* A message body is a text; the model keeps its JSON form: a text that    *)
(* is not JSON, the literal null, a number, or an object with its fields.  *)
(***************************************************************************)
\* The longest list of messages explored.
MaxMessages == 3

CrawlTitles == {"t1", "t2"}
CrawlProgress == {0, 50, 100}
CrawlStatuses == {"COMPLETE", "IN_PROGRESS", "FAILED", "undefined"}

\* The bodies a server may send.
CrawlBodies ==
    {[text |-> "malformed"], [text |-> "null"], [text |-> "number"]}
    \cup [text : {"object"}, status : {"IN_PROGRESS"},
          title : CrawlTitles, progress : CrawlProgress]
    \cup [text : {"object"}, status : CrawlStatuses \ {"IN_PROGRESS"},
          title : {"t1"}, progress : {50}]

\* JSON.parse: throws on a text that is not JSON, else the value read.
JSONParse(body) ==
    IF body.text = "malformed" THEN [threw |-> TRUE]
    ELSE IF body.text = "object"
    THEN [threw |-> FALSE,
          value |-> [type |-> "object", title |-> body.title,
                     status |-> body.status, progress |-> body.progress]]
    ELSE [threw |-> FALSE, value |-> [type |-> body.text]]

\* data.status: a TypeError on null, undefined on a value without the field.
ReadStatus(value) ==
    IF value.type = "null" THEN [threw |-> TRUE]
    ELSE IF value.type = "object"
    THEN [threw |-> FALSE, status |-> value.status]
    ELSE [threw |-> FALSE, status |-> "undefined"]

\* The four states of the hook.
CrawlState(c) ==
    [messages |-> c.messages, progress |-> c.progress,
     isCrawling |-> c.isCrawling,
     showCompletionMessage |-> c.showCompletionMessage]

\* Variant: every message that is not COMPLETE is taken as IN_PROGRESS.
handleWebSocketMessage_AnyStatus(c, body) ==
    LET parsed == JSONParse(body)
    IN  IF parsed.threw THEN [c EXCEPT !.threw = FALSE]
        ELSE LET read == ReadStatus(parsed.value)
             IN  IF read.threw THEN [c EXCEPT !.threw = FALSE]
                 ELSE IF read.status = "COMPLETE"
                 THEN [c EXCEPT !.progress = 100,
                                !.isCrawling = FALSE,
                                !.showCompletionMessage = TRUE,
                                !.threw = FALSE]
                 ELSE [c EXCEPT !.messages = Append(@, parsed.value),
                                !.threw = FALSE]

\* handleWebSocketMessage, lines 55-73: what was thrown in the try block is
\* caught and logged.
handleWebSocketMessage(c, body) ==
    LET parsed == JSONParse(body)
    IN  IF parsed.threw THEN [c EXCEPT !.threw = FALSE]
        ELSE LET read == ReadStatus(parsed.value)
             IN  IF read.threw THEN [c EXCEPT !.threw = FALSE]
                 ELSE IF read.status = "COMPLETE"
                 THEN [c EXCEPT !.progress = 100,
                                !.isCrawling = FALSE,
                                !.showCompletionMessage = TRUE,
                                !.threw = FALSE]
                 ELSE IF read.status = "IN_PROGRESS"
                 THEN [c EXCEPT !.messages = Append(@, parsed.value),
                                !.progress = parsed.value.progress,
                                !.threw = FALSE]
                 ELSE [c EXCEPT !.threw = FALSE]

\* resetCrawlingState, lines 80-85.
resetCrawlingState(c) ==
    [c EXCEPT !.messages = <<>>,
              !.progress = 0,
              !.showCompletionMessage = FALSE,
              !.isCrawling = TRUE]

\* What the steps of the hook leave alone.
CrawlFrame ==
    /\ UNCHANGED <<storeVars, authVars, tableVars, httpVars, lastOp>>
    /\ UNCHANGED <<hook, cron>>

\* The step is recorded with the state it started from.
CrawlRan(c, name, body) ==
    [c EXCEPT !.op = name, !.pre = CrawlState(crawl), !.data = body]

\* A message of the subscription is handed to the hook, part_007 line 78.
CrawlMessage(body) ==
    /\ crawl' = CrawlRan(handleWebSocketMessage(crawl, body), "message", body)
    /\ Len(crawl'.messages) <= MaxMessages
    /\ CrawlFrame

\* handleStartCrawling, part_007 lines 95-98: the state is reset and the
\* request to start is sent.
CrawlStart ==
    /\ crawl' = CrawlRan([resetCrawlingState(crawl) EXCEPT !.starting = TRUE],
                         "reset", [text |-> "none"])
    /\ CrawlFrame

\* The request to start succeeded.
CrawlStartOk ==
    /\ crawl.starting
    /\ crawl' = CrawlRan([crawl EXCEPT !.starting = FALSE],
                         "started", [text |-> "none"])
    /\ CrawlFrame

\* The request to start failed, part_007 lines 99-102.
CrawlStartFailed ==
    /\ crawl.starting
    /\ crawl' = CrawlRan([crawl EXCEPT !.starting = FALSE,
                                       !.isCrawling = FALSE],
                         "failed", [text |-> "none"])
    /\ CrawlFrame

NextCrawl ==
    \/ \E body \in CrawlBodies : CrawlMessage(body)
    \/ CrawlStart
    \/ CrawlStartOk
    \/ CrawlStartFailed

SpecCrawl == Init /\ [][NextCrawl]_vars

(***************************************************************************)
(* Specifications.                                                         *)
(***************************************************************************)
\* The access token of the one user of the page.
TableToken == "jwtA"

\* CrawlingTable as the only caller of the store, a user who logs in and
\* out, any server.
InitMounted ==
    /\ InitStore
    /\ InitAuth([accessToken |-> null, refreshToken |-> null])
    /\ InitTable(TRUE)
    /\ InitHttp
    /\ InitPage

TableEvent ==
    \/ \E r \in RefreshTokens : Login(TableToken, r)
    \/ Logout
    \/ \E t \in timers : TimerFire(t) /\ Len(clients') <= TableClients
    \/ \E c \in ClientIds : OnConnected(c)
    \/ \E c \in ClientIds : OnErrorFrame(c)
    \/ \E c \in ClientIds : OnClose(c)
    \/ TableUnmount

\* The behaviours end when the component leaves the page.
NextTable ==
    \/ TableEffect /\ Len(clients') <= TableClients
    \/ mounted /\ ~EffectPending /\ TableEvent

SpecTable == InitMounted /\ [][NextTable]_vars

\* The connection's life cycle: any caller, any server.
Next ==
    \/ \E url \in Urls : Connect(url) /\ Len(clients') <= MaxClients
    \/ \E t \in timers : TimerFire(t) /\ Len(clients') <= MaxClients
    \/ Disconnect
    \/ \E c \in ClientIds : OnConnected(c)
    \/ \E c \in ClientIds : OnErrorFrame(c)
    \/ \E c \in ClientIds : OnClose(c)
    \/ ResetReconnectAttempts

Spec == Init /\ [][Next]_vars

\* The life cycle without resetReconnectAttempts() and without ERROR
\* frames: a caller that connects and disconnects, a server that accepts a
\* handshake or closes the socket.
NextCalls ==
    \/ \E url \in Urls : Connect(url) /\ Len(clients') <= MaxClients
    \/ \E t \in timers : TimerFire(t) /\ Len(clients') <= MaxClients
    \/ Disconnect
    \/ \E c \in ClientIds : OnConnected(c)
    \/ \E c \in ClientIds : OnClose(c)

SpecCalls == Init /\ [][NextCalls]_vars

\* The life cycle together with sending and subscribing.
NextMsg ==
    \/ Next /\ Len(clients') <= MsgClients
    \/ \E d \in Destinations : SendMessage(d)
    \/ \E d \in Destinations, cb \in Callbacks : Subscribe(d, cb)
    \/ \E sub \in subs : Deliver(sub)

SpecMsg == Init /\ [][NextMsg]_vars

\* The life cycle together with subscribing and unsubscribing.
NextSub ==
    \/ Next /\ Len(clients') <= MsgClients
    \/ \E d \in Destinations, cb \in Callbacks : Subscribe(d, cb)
    \/ \E h \in Handles \cup {0} : Unsubscribe(h)
    \/ \E sub \in subs : Deliver(sub)

SpecSub == Init /\ [][NextSub]_vars

\* One connect(url), a server that refuses every handshake, and a caller
\* that does nothing else.
NextRetry ==
    \/ lastOp.op = "init" /\ \E url \in Urls : Connect(url)
    \/ \E t \in timers : TimerFire(t)
    \/ \E c \in ClientIds : OnErrorFrame(c)
    \/ \E c \in ClientIds : OnClose(c)

SpecRetry == Init /\ [][NextRetry]_vars

\* A server that refuses every handshake and a caller that connects and
\* disconnects at will.
NextRefused ==
    \/ \E url \in Urls : Connect(url)
    \/ \E t \in timers : TimerFire(t)
    \/ Disconnect
    \/ \E c \in ClientIds : OnErrorFrame(c)
    \/ \E c \in ClientIds : OnClose(c)

SpecRefused == Init /\ [][NextRefused]_vars

\* A user who logs in and out and connects, any server.
NextSession ==
    \/ \E url \in Urls : Connect(url) /\ Len(clients') <= SessionClients
    \/ \E t \in timers : TimerFire(t) /\ Len(clients') <= SessionClients
    \/ \E c \in ClientIds : OnConnected(c)
    \/ \E c \in ClientIds : OnErrorFrame(c)
    \/ \E c \in ClientIds : OnClose(c)
    \/ \E a \in AccessTokens, r \in RefreshTokens : Login(a, r)
    \/ Logout

SpecSession == InitSession /\ [][NextSession]_vars

\* A caller who connects to either url, any server.
NextUrls ==
    \/ /\ \E url \in Urls \cup OtherUrls : Connect(url)
       /\ Len(clients') <= SessionClients
    \/ \E t \in timers : TimerFire(t) /\ Len(clients') <= SessionClients
    \/ \E c \in ClientIds : OnConnected(c)
    \/ \E c \in ClientIds : OnErrorFrame(c)
    \/ \E c \in ClientIds : OnClose(c)

SpecUrls == Init /\ [][NextUrls]_vars

\* The clients whose handshake the server has refused, where no connected
\* client is ever dropped.
Refused == {c \in ClientIds : clients[c].err \/ clients[c].st = "closed"}

\* The handshakes the server refuses before it accepts one: fewer than the
\* ceiling, and fewer than the clients of a behaviour.
RefusalLimit == Min(maxReconnectAttempts, ClientLimit) - 1

\* The server may refuse the handshake of c: by an ERROR frame, by closing
\* the socket, or by both in this order.
MayRefuse(c) ==
    /\ clients[c].st = "handshaking"
    /\ Cardinality(Refused \ {c}) < RefusalLimit

\* The server answers a handshake.
ServerAnswers ==
    \E c \in ClientIds :
        \/ OnConnected(c)
        \/ MayRefuse(c) /\ OnErrorFrame(c)
        \/ MayRefuse(c) /\ OnClose(c)

\* One connect(url), a caller that does nothing else, a server that
\* accepts a handshake after fewer than maxReconnectAttempts refusals.
NextLive ==
    \/ lastOp.op = "init" /\ \E url \in Urls : Connect(url)
    \/ \E t \in timers : TimerFire(t)
    \/ ServerAnswers

\* Every pending timer fires (setTimeout) and every handshake is answered.
SpecLive ==
    /\ Init
    /\ [][NextLive]_vars
    /\ WF_vars(\E t \in timers : TimerFire(t))
    /\ WF_vars(ServerAnswers)

TypeOK ==
    /\ stompClient \in 0..ClientLimit
    /\ readyState \in ReadyState
    /\ reconnectAttempts \in Nat
    /\ reconnectTimeoutId \in Nat
    /\ Len(clients) <= ClientLimit
    /\ Len(delayLog) = reconnectAttempts

\* The branch of lines 305-315 needs a stored client outside OPEN and
\* CONNECTING.
StoredClientIsActive == stompClient # 0 => AlreadyActive(readyState)


(***************************************************************************)
(* Properties.                                                             *)
(***************************************************************************)
ConnectRan == lastOp.op \in {"connect", "timer"}

StoreAsBefore ==
    /\ readyState = lastOp.pre.rs
    /\ reconnectAttempts = lastOp.pre.att
    /\ stompClient = lastOp.pre.sc
    /\ reconnectTimeoutId = lastOp.pre.tid

\* C1: connect(url) in state OPEN or CONNECTING creates no client, starts
\* no handshake and leaves reconnectAttempts, readyState and stompClient
\* as they were.
C1_ConnectIdempotent ==
    (ConnectRan /\ lastOp.pre.rs \in {OPEN, CONNECTING}) =>
        /\ lastOp.ret = 0
        /\ Len(clients) = lastOp.pre.n
        /\ reconnectAttempts = lastOp.pre.att
        /\ readyState = lastOp.pre.rs
        /\ stompClient = lastOp.pre.sc

C1_Witness ==
    /\ lastOp.op = "connect"
    /\ lastOp.pre.rs = CONNECTING
    /\ lastOp.pre.att > 0

\* Every client is closed, no timer is pending: nothing more can happen
\* unless the caller acts.
Quiescent ==
    /\ lastOp.op # "init"
    /\ timers = {}
    /\ \A c \in ClientIds : clients[c].st = "closed"

\* C2: one connect(url), every handshake refused, no other call: the run
\* ends after exactly 5 handshakes, CLOSED, with reconnectAttempts = 5 and
\* no timer.
C2_FiveHandshakes ==
    Quiescent =>
        /\ Len(clients) = maxReconnectAttempts
        /\ readyState = CLOSED
        /\ reconnectAttempts = maxReconnectAttempts
        /\ reconnectTimeoutId = 0

\* C3: a reconnect timer scheduled before a disconnect() never fires
\* after it.
C3_NoStaleTimerFires == ~(lastOp.op = "timer" /\ lastOp.stale)

\* C4: disconnect() ends with CLOSED, reconnectAttempts = 0, no timer id
\* and no client stored, from whatever state it is called; a second
\* disconnect() changes nothing.
C4_DisconnectResets ==
    lastOp.op = "disconnect" =>
        /\ readyState = CLOSED
        /\ reconnectAttempts = 0
        /\ reconnectTimeoutId = 0
        /\ stompClient = 0
        /\ lastOp.prev = "disconnect" =>
              StoreAsBefore /\ Len(clients) = lastOp.pre.n

C4_Witness ==
    /\ lastOp.op = "disconnect"
    /\ lastOp.pre.rs = CLOSED
    /\ lastOp.pre.att >= maxReconnectAttempts

\* C5: from disconnect() until the caller's next connect() the state stays
\* CLOSED, reconnectAttempts stays 0 and no timer is scheduled.
C5_StaysClosed ==
    disconnected =>
        /\ readyState = CLOSED
        /\ reconnectAttempts = 0
        /\ reconnectTimeoutId = 0

\* C6: right after the success callback reconnectAttempts is 0, whatever
\* it was before.
C6_OpenResetsAttempts ==
    lastOp.op = "onConnected" => readyState = OPEN /\ reconnectAttempts = 0

C6_Witness ==
    /\ lastOp.op = "onConnected"
    /\ lastOp.pre.att = maxReconnectAttempts - 1

\* C7: outside OPEN, sendMessage hands nothing to the transport and
\* changes no store state, subscribe registers nothing and returns
\* undefined; a refused message is never transmitted, also not later.
C7_NotOpenDrops ==
    /\ (lastOp.op = "sendMessage" /\ lastOp.pre.rs # OPEN) =>
          /\ lastOp.ret \in dropped
          /\ StoreAsBefore
          /\ Len(clients) = lastOp.pre.n
    /\ (lastOp.op = "subscribe" /\ lastOp.pre.rs # OPEN) =>
          /\ lastOp.ret = 0
          /\ \A sub \in subs : sub.id # subSeq
          /\ StoreAsBefore
    /\ \A m \in transmitted : m.id \notin dropped

C7_Witness ==
    /\ dropped # {}
    /\ readyState = OPEN
    /\ lastOp.op = "onConnected"

\* C8: at most one client is handshaking or connected at any time.
C8_OneTransport == Cardinality(AliveClients) <= 1

C9_Table == <<2000, 4000, 8000, 16000, 30000>>

C10_CeilingRefusesConnect ==
    /\ (/\ ConnectRan
        /\ lastOp.pre.att >= maxReconnectAttempts
        /\ lastOp.pre.rs \notin {OPEN, CONNECTING}) =>
          /\ lastOp.ret = 0
          /\ Len(clients) = lastOp.pre.n
          /\ Cardinality(timers) <= lastOp.pre.nt
          /\ reconnectTimeoutId = 0
          /\ readyState = CLOSED
          /\ reconnectAttempts = lastOp.pre.att
    /\ (lastOp.op = "connect" /\ lastOp.prev = "disconnect") =>
          /\ reconnectAttempts = 0
          /\ readyState = CONNECTING
          /\ Len(clients) = lastOp.pre.n + 1
          /\ clients[Len(clients)].st = "handshaking"
          /\ stompClient = Len(clients)

C10_Witness ==
    /\ lastOp.op = "connect"
    /\ lastOp.pre.rs = CLOSED
    /\ lastOp.pre.att >= maxReconnectAttempts

\* C11: with the retries used up (CLOSED at the ceiling, no timer), a
\* connect(url) of the caller moves readyState to CONNECTING and starts a
\* handshake.
C11_ManualConnectResumes ==
    (lastOp.op = "connect" /\ Exhausted(lastOp.pre)) =>
        /\ readyState = CONNECTING
        /\ lastOp.ret = 1
        /\ Len(clients) = lastOp.pre.n + 1

\* C11, amended: with the retries used up, disconnect() followed by
\* connect(url) moves readyState to CONNECTING and starts a handshake with
\* reconnectAttempts at 0; connect(url) alone starts none and leaves
\* readyState CLOSED.
C11_ResumeAfterDisconnect ==
    /\ (lastOp.op = "connect" /\ lastOp.scen = "resume") =>
            /\ readyState = CONNECTING
            /\ reconnectAttempts = 0
            /\ lastOp.ret = 1
            /\ Len(clients) = lastOp.pre.n + 1
            /\ stompClient = Len(clients)
            /\ clients[stompClient].st = "handshaking"
    /\ (lastOp.op = "connect" /\ Exhausted(lastOp.pre)) =>
            /\ readyState = CLOSED
            /\ lastOp.ret = 0
            /\ Len(clients) = lastOp.pre.n

C11_Witness ==
    /\ lastOp.op = "connect"
    /\ lastOp.scen = "resume"
    /\ readyState = CONNECTING

FailureRan == lastOp.op \in {"onErrorFrame", "onClose"}

\* C12: a failure of a client, handshaking or connected, sets CLOSED and
\* stompClient null, adds exactly 1 to reconnectAttempts and schedules
\* exactly one timer iff the new count is under the ceiling; a second
\* delivery of the failure of the same client adds nothing and schedules
\* nothing.
C12_OneAttemptPerClient ==
    FailureRan =>
        /\ readyState = CLOSED
        /\ stompClient = 0
        /\ lastOp.ret = 1 =>
                /\ reconnectAttempts = lastOp.pre.att + 1
                /\ Cardinality(timers) = lastOp.pre.nt +
                       (IF ShouldReconnect(reconnectAttempts) THEN 1 ELSE 0)
        /\ lastOp.ret > 1 =>
                /\ reconnectAttempts = lastOp.pre.att
                /\ Cardinality(timers) = lastOp.pre.nt

\* C13: readyState changes only along UNINSTANTIATED or CLOSED ->
\* CONNECTING (connect() of the caller or of a timer), CONNECTING -> OPEN
\* (handshake success), CONNECTING -> CLOSED and OPEN -> CLOSED (failure)
\* and any state -> CLOSED (disconnect()).
C13_DocumentedTransitions ==
    readyState # lastOp.pre.rs =>
        \/ /\ lastOp.pre.rs \in {UNINSTANTIATED, CLOSED}
           /\ readyState = CONNECTING
           /\ ConnectRan
        \/ /\ lastOp.pre.rs = CONNECTING
           /\ readyState = OPEN
           /\ lastOp.op = "onConnected"
        \/ /\ lastOp.pre.rs \in {CONNECTING, OPEN}
           /\ readyState = CLOSED
           /\ FailureRan
        \/ /\ readyState = CLOSED
           /\ lastOp.op = "disconnect"

\* C14: connectionStatus is getStatusString(readyState) in every state,
\* and getStatusString gives the five states five different strings.
C14_StatusFollowsState ==
    /\ connectionStatus = getStatusString(readyState)
    /\ \A a, b \in ReadyState :
           getStatusString(a) = getStatusString(b) => a = b

C14_Witness ==
    /\ lastOp.op = "onConnected"
    /\ lastOp.pre.rs # OPEN
    /\ readyState = OPEN
    /\ connectionStatus = "connected"

\* C19: right after a connect() of the caller, a disconnect() or a firing
\* timer, reconnectTimeoutId is null and the timer the handle referred to
\* is no longer pending.
C19_HandleCleared ==
    (ConnectRan \/ lastOp.op = "disconnect") =>
        /\ reconnectTimeoutId = 0
        /\ lastOp.pre.tid # 0 => lastOp.pre.tid \notin TimerIds

C19_Witness ==
    /\ lastOp.op = "disconnect"
    /\ lastOp.pre.tid # 0
    /\ lastOp.pre.nt > 1
    /\ timers # {}

\* C18: from the initial state, connect(url) and then the success of its
\* handshake take readyState through UNINSTANTIATED, CONNECTING, OPEN, one
\* step each, and leave stompClient the client whose handshake succeeded.
C18_FirstConnectOpens ==
    /\ (lastOp.op = "connect" /\ lastOp.scen = "first") =>
            /\ lastOp.pre.rs = UNINSTANTIATED
            /\ readyState = CONNECTING
            /\ clients[stompClient].st = "handshaking"
    /\ (lastOp.op = "onConnected" /\ lastOp.scen = "first") =>
            /\ lastOp.pre.rs = CONNECTING
            /\ readyState = OPEN
            /\ stompClient = lastOp.ret
            /\ lastOp.pre.sc = lastOp.ret
            /\ Connected(stompClient)

C18_Witness ==
    /\ lastOp.op = "onConnected"
    /\ lastOp.scen = "first"
    /\ readyState = OPEN

\* C15: a handshake started by connect(), the caller's or a timer's,
\* carries "Bearer <token>" for the access token the auth store holds when
\* that connect() runs, and no Authorization header when it holds none.
C15_HandshakeCarriesCurrentToken ==
    (ConnectRan /\ lastOp.ret = 1) =>
        LET headers == clients[Len(clients)].headers
        IN  /\ accessToken = null => headers = {}
            /\ accessToken # null =>
                   headers = {<<"Authorization", "Bearer " \o accessToken>>}

\* A retry that carries another token than the handshake that failed.
C15_Witness ==
    /\ lastOp.op = "timer"
    /\ lastOp.ret = 1
    /\ Len(clients) > 1
    /\ accessToken # null
    /\ clients[Len(clients) - 1].headers # {}
    /\ clients[Len(clients)].headers # clients[Len(clients) - 1].headers

C16_EventuallyOpen == (lastOp.op = "connect") ~> (readyState = OPEN)

\* C20: in OPEN with the stored client connected, subscribe(destination,
\* callback) registers one subscription of that callback for that
\* destination on the stored client and returns its handle, a message
\* delivered for it calls the callback once, and sendMessage(destination,
\* body) hands one message with that destination and body to the stored
\* client.
C20_OpenPassesThrough ==
    LET usable == /\ lastOp.pre.rs = OPEN
                  /\ lastOp.pre.sc # 0
                  /\ Connected(lastOp.pre.sc)
    IN  /\ (lastOp.op = "subscribe" /\ usable) =>
               /\ lastOp.ret # 0
               /\ [id |-> lastOp.ret, client |-> lastOp.pre.sc,
                   dest |-> lastOp.arg[1], callback |-> lastOp.arg[2]]
                      \in subs
               /\ Cardinality({sub \in subs : sub.id = lastOp.ret}) = 1
        /\ (lastOp.op = "sendMessage" /\ usable) =>
               /\ [id |-> lastOp.ret, client |-> lastOp.pre.sc,
                   dest |-> lastOp.arg] \in transmitted
               /\ Cardinality({m \in transmitted : m.id = lastOp.ret}) = 1
               /\ lastOp.ret \notin dropped
        /\ lastOp.op = "deliver" =>
               \E sub \in subs :
                   /\ sub.dest = lastOp.arg
                   /\ CopiesIn([msg |-> lastOp.ret,
                                callback |-> sub.callback], invocations) = 1
                   /\ BagCardinality(invocations) = delivered

C20_Witness ==
    /\ lastOp.op = "deliver"
    /\ readyState = OPEN
    /\ \E sub \in subs : sub.dest = "/user/queue/crawling-progress"

\* C21: unsubscribe(subscription) asks Stomp at most once to unsubscribe a
\* handle, changes no store state, and with undefined or null asks for
\* nothing.
C21_UnsubscribeIdempotent ==
    /\ \A h \in BagToSet(unsubRequests) : CopiesIn(h, unsubRequests) = 1
    /\ lastOp.op = "unsubscribe" =>
           /\ StoreAsBefore
           /\ lastOp.ret = 0 =>
                  BagCardinality(unsubRequests) = lastOp.pre.nu

\* C22: 0 <= reconnectAttempts <= maxReconnectAttempts in every state.
C22_AttemptsWithinCeiling == reconnectAttempts \in 0..maxReconnectAttempts

\* C23: while the stored timer handle is non-null, readyState is CLOSED
\* and 1 <= reconnectAttempts < maxReconnectAttempts.
C23_TimerOnlyWhileClosed ==
    reconnectTimeoutId # 0 =>
        /\ readyState = CLOSED
        /\ reconnectAttempts \in 1..(maxReconnectAttempts - 1)

\* C24: at most one timer is pending, and a pending timer is the one
\* whose handle is stored in reconnectTimeoutId.
C24_OneStoredTimer ==
    /\ Cardinality(timers) <= 1
    /\ \A t \in timers : t.id = reconnectTimeoutId

\* C25: in OPEN stompClient is the client created last and it is
\* connected; in CLOSED stompClient is null and no client is connected.
C25_ClientMatchesState ==
    /\ readyState = OPEN =>
           /\ stompClient # 0
           /\ stompClient = Len(clients)
           /\ Connected(stompClient)
    /\ readyState = CLOSED =>
           /\ stompClient = 0
           /\ \A c \in ClientIds : ~Connected(c)

\* C26: readyState is never CLOSING, and it is UNINSTANTIATED only while
\* neither connect() nor disconnect() has been called.
C26_NoClosingNoReturn ==
    /\ readyState # CLOSING
    /\ readyState = UNINSTANTIATED =>
           /\ clients = <<>>
           /\ ~disconnected
           /\ lastOp.op \notin {"connect", "timer", "disconnect"}

C26_Witness ==
    /\ lastOp.op = "connect"
    /\ lastOp.prev = "disconnect"
    /\ lastOp.pre.sc = 0
    /\ Len(clients) > 1
    /\ readyState = CONNECTING

\* C27: CrawlingTable calls connect() only with a user, in UNINSTANTIATED or
\* CLOSED and with reconnectAttempts 0, so an effect run during a backoff or
\* after the retries are used up leaves the clients and the timers as they
\* were; an effect run without a user calls disconnect().
C27_TableConnectsOnlyWhenIdle ==
    lastOp.op = "effect" =>
        /\ lastOp.ret = 1 =>
               /\ lastOp.arg # null
               /\ lastOp.pre.rs \in {UNINSTANTIATED, CLOSED}
               /\ lastOp.pre.att = 0
        /\ lastOp.pre.att \in 1..maxReconnectAttempts /\ lastOp.arg # null =>
               /\ lastOp.ret = 0
               /\ Len(clients) = lastOp.pre.n
               /\ Cardinality(timers) = lastOp.pre.nt
               /\ reconnectAttempts = lastOp.pre.att
        /\ lastOp.arg = null =>
               /\ lastOp.ret = 2
               /\ readyState = CLOSED
               /\ stompClient = 0
               /\ reconnectAttempts = 0
               /\ reconnectTimeoutId = 0

\* An effect run during a backoff, with a user: the timer stays pending.
C27_Witness ==
    /\ lastOp.op = "effect"
    /\ lastOp.arg # null
    /\ lastOp.pre.att \in 1..(maxReconnectAttempts - 1)
    /\ lastOp.pre.rs = CLOSED
    /\ reconnectTimeoutId # 0
    /\ timers # {}

\* The subscriptions of the component the broker still serves.
ActiveTableSubs ==
    {sub \in subs : sub.dest = TableDestination /\ Connected(sub.client)}

\* C28: CrawlingTable holds at most one active subscription to
\* /user/queue/crawling-progress, none once it left the page, and whenever
\* its effect has run in OPEN with a user it holds a subscription on the
\* stored, connected client.
C28_OneSubscriptionResubscribed ==
    /\ Cardinality(ActiveTableSubs) <= 1
    /\ ~mounted => ActiveTableSubs = {}
    /\ mounted /\ ~EffectPending /\ readyState = OPEN /\ userId # null =>
           \E sub \in ActiveTableSubs :
               /\ sub.id = subscription
               /\ sub.client = stompClient

\* C29: for one original request the interceptor issues at most one
\* request to /auth/refresh and at most one retry of the original request,
\* whatever the backend answers.
C29_OneRefreshOneRetry ==
    /\ httpSent.refresh <= 1
    /\ httpSent.retry <= 1

\* The auth store and localStorage after logout().
LoggedOut ==
    /\ accessToken = null
    /\ refreshToken = null
    /\ userId = null
    /\ ~isAuthenticated
    /\ localStorage = [accessToken |-> null, refreshToken |-> null]

\* C30: a 401 with no refresh token stored logs the user out and rejects
\* without a request to /auth/refresh; a failed /auth/refresh request logs
\* the user out and rejects; another error, or a 401 on a request marked
\* _retry, is rejected with the auth store untouched.
C30_FailedRefreshLogsOut ==
    lastOp.op = "interceptor" =>
        /\ ShouldRefresh(httpOp.status, httpOp.marked)
             /\ httpOp.stored = null =>
               /\ LoggedOut
               /\ httpOp.settled = "rejected"
               /\ ~httpOp.posted
        /\ httpOp.kind = "refresh" /\ httpOp.status # 200 =>
               /\ LoggedOut
               /\ httpOp.settled = "rejected"
        /\ (/\ httpOp.depth = 1
            /\ httpOp.status # 200
            /\ ~ShouldRefresh(httpOp.status, httpOp.marked)) =>
               /\ AuthValues = httpOp.before
               /\ httpOp.settled = "rejected"

\* C31: in the auth store isAuthenticated is true exactly when accessToken
\* is not null, the two tokens are null together, and localStorage holds
\* the tokens of the store (no item for null).
C31_AuthConsistent ==
    /\ isAuthenticated <=> accessToken # null
    /\ (accessToken = null) <=> (refreshToken = null)
    /\ localStorage = [accessToken |-> accessToken,
                       refreshToken |-> refreshToken]

\* A logout() after a login().
C31_Witness ==
    /\ lastOp.op = "logout"
    /\ lastOp.prev = "login"
    /\ accessToken = null

\* C32: once the cleanup of useWebSocket has run on unmount, no WebSocket
\* is created any more, a pending reconnect timer notwithstanding.
C32_NoSocketAfterUnmount ==
    hook.mounted = "gone" => Len(hook.sockets) = hook.atUnmount

\* C33: in useWebSocket reconnectAttempts stays within reconnectLimit, at
\* most reconnectLimit reconnects are scheduled between two resets, only
\* the stable-connection timer of a socket that is still open lowers the
\* counter, and an onclose at the limit sets the error and schedules
\* nothing.
C33_ReconnectsWithinLimit ==
    /\ hook.attempts <= ReconnectLimit(hook)
    /\ hook.scheduled <= ReconnectLimit(hook)
    /\ hook.attempts < hook.pre.att => hook.op = "stable" /\ hook.pre.open
    /\ hook.op = "stable" => hook.pre.open /\ hook.attempts = 0
    /\ (hook.op = "onclose" /\ hook.pre.att >= ReconnectLimit(hook)) =>
           /\ hook.error = "permanent"
           /\ hook.attempts = hook.pre.att
           /\ Cardinality(Reconnects(hook)) = hook.pre.nr

\* An onclose at the limit reached by reconnects alone, no cleanup.
C33_Witness ==
    /\ hook.op = "onclose"
    /\ hook.mounted = "yes"
    /\ hook.scheduled = ReconnectLimit(hook)
    /\ hook.pre.att = ReconnectLimit(hook)
    /\ hook.error = "permanent"

\* The fields of a schedule its frequency uses.
UsedFields(freq) ==
    CASE freq = "minute" -> {}
      [] freq = "hourly" -> {"min"}
      [] freq = "daily" -> {"min", "hr"}
      [] freq = "weekly" -> {"min", "hr", "dow"}
      [] freq = "monthly" -> {"min", "hr", "dom"}

\* C34: parsing the generated cron expression gives back the frequency and
\* every field the frequency uses, and generating from the parsed schedule
\* gives the same expression.
C34_CronRoundTrip ==
    /\ cron.stage \in {"parsed", "again"} =>
           /\ cron.parsed.freq = cron.input.freq
           /\ \A f \in UsedFields(cron.input.freq) :
                  cron.parsed[f] = cron.input[f]
    /\ cron.stage = "again" => cron.again = cron.expr

\* A weekly schedule with two-digit fields, back from the round trip.
C34_Witness ==
    /\ cron.stage = "again"
    /\ cron.input.freq = "weekly"
    /\ cron.input.min = 59
    /\ cron.input.hr = 23
    /\ cron.input.dow = 6
    /\ cron.expr = <<"0", " ", "5", "9", " ", "2", "3", " ", "?", " ",
                     "*", " ", "6">>

\* C35: handleWebSocketMessage changes the state only for a well-formed
\* message whose status is COMPLETE or IN_PROGRESS.  COMPLETE sets progress
\* to 100, isCrawling to false and showCompletionMessage to true and leaves
\* messages alone; IN_PROGRESS appends the message at the end of messages
\* and sets progress to the progress of the message; any other status, and
\* a body that cannot be parsed, leaves the four states as they were; the
\* handler never throws.
C35_MessageEffect ==
    crawl.op = "message" =>
        LET d == crawl.data
            p == crawl.pre
            now == CrawlState(crawl)
        IN  /\ ~crawl.threw
            /\ IF d.text = "object" /\ d.status = "COMPLETE"
               THEN now = [p EXCEPT !.progress = 100,
                                    !.isCrawling = FALSE,
                                    !.showCompletionMessage = TRUE]
               ELSE IF d.text = "object" /\ d.status = "IN_PROGRESS"
               THEN /\ Len(now.messages) = Len(p.messages) + 1
                    /\ SubSeq(now.messages, 1, Len(p.messages)) = p.messages
                    /\ LET last == now.messages[Len(now.messages)]
                       IN  /\ last.title = d.title
                           /\ last.status = d.status
                           /\ last.progress = d.progress
                    /\ now.progress = d.progress
                    /\ now.isCrawling = p.isCrawling
                    /\ now.showCompletionMessage = p.showCompletionMessage
               ELSE now = p

\* A second IN_PROGRESS message, of another title, was appended behind
\* the first.
C35_Witness ==
    /\ crawl.op = "message"
    /\ crawl.data.text = "object"
    /\ crawl.data.status = "IN_PROGRESS"
    /\ Len(crawl.pre.messages) = 1
    /\ crawl.messages[1].title # crawl.messages[2].title
    /\ crawl.progress = 50

\* C36: while the completion message is shown, progress is 100 and the
\* job is not running, whatever messages arrive after COMPLETE.
C36_CompletedStable ==
    crawl.showCompletionMessage =>
        /\ crawl.progress = 100
        /\ ~crawl.isCrawling

=============================================================================
